---- MODULE Spec2Model ----
(***************************************************************************)
(* Quota / subscription state machine of the Telegram bot                  *)
(* (src/bot/telegram_bot.py, src/bot/db.py).                               *)
(*                                                                         *)
(* The bot runs every update as an asyncio task (concurrent_updates(True)) *)
(* on one event loop: handlers interleave only at their await points.  All *)
(* DB calls are synchronous, so a block of code between two awaits is one  *)
(* atomic action of the model.                                             *)
(***************************************************************************)
EXTENDS Integers, Sequences, FiniteSets, Bags, TLC

(* ------------------------------ bounds --------------------------------- *)
MaxOps == 3        \* requests, payment confirmations and admin commands in one behaviour
MaxSeqOps == 4     \* the same, when the operations run one after another
MaxDay == 4        \* the clock stops advancing after this day
MaxInflight == 2   \* requests that overlap in time
MaxInlineOps == 5  \* requests and inline-mode events in one behaviour
MaxLifeOps == 4    \* /start commands and requests in one behaviour
MaxFailOps == 3    \* requests in one behaviour of which some fail or are denied
MaxStoreOps == 3   \* update_user_field calls in one behaviour
MaxGroupOps == 2   \* requests in one behaviour with private and group chats
MaxPayOps == 2     \* payment confirmations in one behaviour with two users
ChunkSize == 10    \* the transport's message length cap (split_into_chunks), scaled down
MaxLen == 22       \* length of the longest complete answer
MaxPartials == 5   \* partials one stream yields
MaxPolls == 5      \* gets of one Replicate.run that are counted

(* --------------------------- program constants ------------------------- *)
TrialDays == 3
RenewDays == 30
VisionTokenPrice == 1
SuccessCode == 100
BackoffStep == 5

(* ------------------------------ input sets ----------------------------- *)
UserIds == {1}
Ids == UserIds
Handlers == {"prompt", "image", "tts", "transcribe", "vision"}
Kinds == {"gpt4_rate", "gpt35_rate", "dalle_rate", "whisper_rate", "tts_rate"}
TokenCosts == {3, 6}
PayIds == {7, 42}
DaySteps == {4}
\* OutSum as reported by the gateway: <<whole part, tenths>> of a decimal
OutSums == {<<20, 0>>, <<40, 0>>, <<40, 5>>, <<999, 0>>}
\* State code of the gateway answer; 0 stands for an answer without State
StateCodes == {0, 50, 100}
\* the tier numbers the admin passes to /change_rate
RateNumbers == {1, 4}
\* the second argument of /change_rate as typed: a number, -1 stands for a
\* text that is not a string of digits
RateArgs == {-1, 0, 1, 4, 5}
\* the number of arguments that follow /change_rate
ArgCounts == {1, 2, 3}
\* str(uuid4()) of the inline results
ResultIds == {1, 2}
\* the chat ids of the rows the account store is called with
StoreIds == {1, 2}
\* the columns of the users table next to chat_id
Fields == Kinds \cup {"rate_end_date", "rate_type", "is_free", "last_pay_id"}
\* the handlers that answer with a completion of the chat model
ChatHandlers == {"prompt", "transcribe"}

(* ------------------------------ rates table ---------------------------- *)
RateKeys == <<"base", "plus", "pro", "gpt-4">>

Rates ==
  [k \in {"base", "plus", "pro", "gpt-4"} |->
     CASE k = "base" ->
            [gpt4_rate |-> 0, gpt35_rate |-> 5, dalle_rate |-> 1,
             whisper_rate |-> 1, tts_rate |-> 4, price |-> 10]
       [] k = "plus" ->
            [gpt4_rate |-> 0, gpt35_rate |-> 7, dalle_rate |-> 2,
             whisper_rate |-> 2, tts_rate |-> 7, price |-> 20]
       [] k = "pro" ->
            [gpt4_rate |-> 0, gpt35_rate |-> 8, dalle_rate |-> 2,
             whisper_rate |-> 2, tts_rate |-> 8, price |-> 30]
       [] OTHER ->
            [gpt4_rate |-> 7, gpt35_rate |-> 8, dalle_rate |-> 2,
             whisper_rate |-> 2, tts_rate |-> 8, price |-> 40]]

(* ------------------------------- state --------------------------------- *)
VARIABLES
  users,     \* the users table: chat_id -> row, for the rows that exist
  today,     \* datetime.now().date(), in days
  req,       \* the requests in flight: a bag of handler positions and locals
  last,      \* outcome of check_rate_limit when the last step was a handler's check
  base,      \* history: balance written by the last creation/renewal
  spent,     \* history: sum of the costs debited since then
  credited,  \* history: the <<payment id, OutSum>> confirmations that renewed the account
  lastConf,  \* history: <<payment id, OutSum, n>>: the account's last n successful-state
             \* confirmations were all of this payment; <<>> before the first
  nOps,      \* requests, payments and admin commands so far
  inline_queries_cache,  \* self.inline_queries_cache: the result ids that hold a query
  starting,  \* the /start handlers between is_user_exists and create_user, per chat
  answered,  \* history: the result ids whose query was popped and sent to the model
  \* ---- one streamed answer of prompt (the body of its async for loop) ----
  phase,         \* "idle", "streaming" (inside the loop) or "done" (the loop ended)
  content,       \* length of the partial the stream yielded last (partials are cumulative)
  seenText,      \* some partial so far had a character that is not whitespace
  nPartials,     \* partials yielded so far
  i,             \* local i
  prev,          \* len(prev)
  sent_message,  \* local sent_message: an index into messages, 0 for None
  backoff,       \* local backoff
  stream_chunk,  \* local stream_chunk
  total_tokens,  \* local total_tokens
  messages,      \* the bot's messages in the chat, in the order they were sent
  sendsIssued,   \* history: reply_text calls of the loop
  sendsOk,       \* history: reply_text calls that returned a message
  editsFailed,   \* history: edits of the loop that raised
  rejected,      \* history: calls of the loop the transport answered with an error
  finalized,     \* history: the messages an edit closed with a full chunk
  obs,           \* what the last iteration of the loop did
  \* ---- one answer sent without streaming (the for loop over chunks) ----
  replyPath,     \* "none", or the handler whose loop runs: "prompt" or "transcribe"
  response,      \* length of the complete text that is split
  index,         \* chunks the loop is done with (the index of enumerate)
  replies,       \* the messages reply_text returned, in the order they were sent
  replyCalls,    \* history: reply_text calls of the loop
  raised,        \* the loop was left by an exception
  \* ---- one call of Replicate.run and the prediction it created ----
  status,        \* the status the service holds for the prediction; "none" before post
  output,        \* the output the service holds for the prediction; 0 for null
  run_pc,        \* "idle", "poll" (about to get), "sleep", "returned" or "raised"
  polled,        \* response["status"] of the last get of this call; "none" before it
  result,        \* what the call returned or raised
  npolls         \* history: the gets of this call, counted up to MaxPolls

quota == <<users, today, req, last, base, spent, credited, lastConf, nOps,
           inline_queries_cache, starting, answered>>

pvars == <<phase, content, seenText, nPartials, i, prev, sent_message, backoff,
           stream_chunk, total_tokens, messages, sendsIssued, sendsOk, editsFailed,
           rejected, finalized, obs>>

rvars == <<replyPath, response, index, replies, replyCalls, raised>>

predvars == <<status, output, run_pc, polled, result, npolls>>

vars == <<quota, pvars, rvars, predvars>>

\* the variables only the inline mode and /start between its awaits touch
aux == <<inline_queries_cache, starting, answered>>

(* ------------------------------ helpers -------------------------------- *)
\* str(n): the decimal digits of a non-negative integer, most significant first
RECURSIVE ToStr(_)
ToStr(n) == IF n < 10 THEN <<n>> ELSE Append(ToStr(n \div 10), n % 10)

\* int(s) for a string of decimal digits; -1 stands for the exception that
\* int() raises on None (a NULL column), which is stored here as <<>>
RECURSIVE ParseInt(_)
ParseInt(s) ==
  IF Len(s) = 0 THEN -1
  ELSE IF Len(s) = 1 THEN s[1]
  ELSE 10 * ParseInt(SubSeq(s, 1, Len(s) - 1)) + s[Len(s)]

\* int(float(OutSum)): the fraction is dropped
IntOfFloat(outsum) == outsum[1]

NullPayId == <<>>

\* the row of an observation that observed nothing
NoUser ==
  [gpt4_rate |-> 0, gpt35_rate |-> 0, dalle_rate |-> 0, whisper_rate |-> 0,
   tts_rate |-> 0, rate_end_date |-> 0, rate_type |-> "base",
   is_free |-> FALSE, last_pay_id |-> NullPayId]

NoCheck ==
  [chat |-> 0, kind |-> "none", okay |-> FALSE, reason |-> "none", user |-> NoUser,
   now |-> 0, sent |-> 0, button |-> "none"]

Abs(x) == IF x < 0 THEN -x ELSE x

Min(a, b) == IF a < b THEN a ELSE b

\* split_into_chunks: the text cut at every ChunkSize characters.  A text is
\* a piece of the complete answer: <<a, b>> stands for its characters a+1..b
split_into_chunks(len) ==
  [j \in 1..((len + ChunkSize - 1) \div ChunkSize) |->
     <<(j - 1) * ChunkSize, Min(j * ChunkSize, len)>>]

\* get_stream_cutoff_values in a private chat: the cutoff grows with the
\* length of the text (scaled with ChunkSize)
get_stream_cutoff_values(len) == IF len > ChunkSize \div 2 THEN 2 ELSE 1

\* a cutoff that forgets the backoff
StreamCutoffNoBackoff(len, backoff_) == get_stream_cutoff_values(len)

\* cutoff = get_stream_cutoff_values(update, content); cutoff += backoff
StreamCutoff(len, backoff_) == get_stream_cutoff_values(len) + backoff_

\* an edit rule that waits for the end of the stream
ShouldEditFinalOnly(len, prev_, cutoff, fin) == fin

\* the condition of the elif: abs(len(content) - len(prev)) > cutoff or
\* tokens != "not_finished"
ShouldEdit(len, prev_, cutoff, fin) == Abs(len - prev_) > cutoff \/ fin

\* a loop that never counts its iterations
NextIterationStuck(i_) == i_

\* i += 1 at the end of an iteration that was not cut short by continue
NextIteration(i_) == i_ + 1

\* a backoff that a failed edit leaves alone
BackoffAfterFailureSame(backoff_) == backoff_

\* backoff += 5 in each of the three except clauses of the edit
BackoffAfterFailure(backoff_) == backoff_ + BackoffStep

\* an iteration that did nothing yet
NoObs ==
  [branch |-> "none", whole |-> 0, len |-> 0, delta |-> 0, fin |-> FALSE, prev |-> 0,
   cutoff |-> 0, backoff |-> 0, first |-> FALSE, live |-> 0,
   edit |-> "none", delete |-> "none", send |-> "none"]

ZeroKinds == [k \in Kinds |-> 0]

Balances(u) == [k \in Kinds |-> u[k]]

(* ------------------------------ DB (db.py) ----------------------------- *)
\* DB.is_user_exists
is_user_exists(db, chat_id) == chat_id \in DOMAIN db

\* a create_user that replaces the row of a chat_id that is already there
create_userUpsert(db, chat_id, row) ==
  [c \in DOMAIN db \cup {chat_id} |-> IF c = chat_id THEN row ELSE db[c]]

\* DB.create_user: a new row; the columns not passed are NULL.  chat_id is
\* the primary key: for a chat_id that is already there commit() raises
\* IntegrityError and the table keeps the row it had
create_user(db, chat_id, row) ==
  IF chat_id \in DOMAIN db THEN db
  ELSE [c \in DOMAIN db \cup {chat_id} |-> IF c = chat_id THEN row ELSE db[c]]

\* an update without the filter on chat_id: the column of every row
update_user_fieldAllRows(db, chat_id, field_name, new_value) ==
  [c \in DOMAIN db |-> [db[c] EXCEPT ![field_name] = new_value]]

\* DB.update_user_field: writes one column of one row; nothing when no row
update_user_field(db, chat_id, field_name, new_value) ==
  IF chat_id \in DOMAIN db
  THEN [db EXCEPT ![chat_id] = [@ EXCEPT ![field_name] = new_value]]
  ELSE db

\* the values update_user_field is called with, per column
FieldValues(f) ==
  CASE f = "rate_end_date" -> {30}
    [] f = "rate_type" -> {"plus"}
    [] f = "is_free" -> {FALSE}
    [] f = "last_pay_id" -> {<<7>>}
    [] OTHER -> {0, 9}

(* -------------------------- check_rate_limit --------------------------- *)
\* check_rate_limit with the balance tests made before the expiry test
RateLimitReasonBalanceFirst(user, rate_type, now) ==
  IF user[rate_type] = 0 THEN "no_entitlement"
  ELSE IF user[rate_type] <= 0 THEN "exhausted"
  ELSE IF user.rate_end_date < now THEN "expired"
  ELSE "okay"

\* check_rate_limit without its last branch: a negative balance is truthy
RateLimitReasonNoExhausted(user, rate_type, now) ==
  IF user.rate_end_date < now THEN "expired"
  ELSE IF user[rate_type] = 0 THEN "no_entitlement"
  ELSE "okay"

\* The branch check_rate_limit takes for a row and a resource kind
RateLimitReason(user, rate_type, now) ==
  IF user.rate_end_date < now THEN "expired"
  ELSE IF user[rate_type] = 0 THEN "no_entitlement"
  ELSE IF user[rate_type] <= 0 THEN "exhausted"
  ELSE "okay"

\* each of the three denying branches makes one reply_text whose keyboard
\* holds the button with callback_data "change_rate"; sent and button are
\* the messages of the call and the button of the message
check_rate_limit(db, chat_id, rate_type, now) ==
  LET r == RateLimitReason(db[chat_id], rate_type, now)
  IN [chat |-> chat_id, kind |-> rate_type, okay |-> (r = "okay"), reason |-> r,
      user |-> db[chat_id], now |-> now,
      sent |-> IF r = "okay" THEN 0 ELSE 1,
      button |-> IF r = "okay" THEN "none" ELSE "change_rate"]

\* the chat-token column a handler bills, chosen by the tier of the row it read
ChatKind(user) == IF user.rate_type = "gpt-4" THEN "gpt4_rate" ELSE "gpt35_rate"

\* the check_rate_limit calls a handler makes before it starts work, in order
HandlerChecks(h, user) ==
  CASE h = "prompt" -> <<ChatKind(user)>>
    [] h = "image" -> <<"dalle_rate">>
    [] h = "tts" -> <<"tts_rate">>
    [] h = "vision" -> <<"gpt4_rate">>
    [] OTHER -> IF user.rate_type = "gpt-4"
                THEN <<"whisper_rate", "gpt4_rate">>
                ELSE <<"whisper_rate">>

\* a handler that goes on to its next check after a denial
RECURSIVE RunChecksAll(_, _, _, _)
RunChecksAll(db, chat_id, kinds, now) ==
  LET c == check_rate_limit(db, chat_id, Head(kinds), now)
  IN IF Len(kinds) = 1 THEN c
     ELSE LET r == RunChecksAll(db, chat_id, Tail(kinds), now)
          IN [r EXCEPT !.okay = @ /\ c.okay, !.sent = @ + c.sent]

\* the checks are made one after another and stop at the first denial (if
\* not okay: return); sent adds up the messages of the checks made
RECURSIVE RunChecks(_, _, _, _)
RunChecks(db, chat_id, kinds, now) ==
  LET c == check_rate_limit(db, chat_id, Head(kinds), now)
  IN IF Len(kinds) = 1 \/ ~c.okay THEN c
     ELSE RunChecks(db, chat_id, Tail(kinds), now)

(* ------------------------------- renewal ------------------------------- *)
\* a renewal that forgets one balance and grants the trial period
RenewFieldsPartial(db, chat_id, rate_type, now) ==
  LET rate == Rates[rate_type]
      d1 == update_user_field(db, chat_id, "gpt4_rate", rate.gpt4_rate)
      d2 == update_user_field(d1, chat_id, "gpt35_rate", rate.gpt35_rate)
      d3 == update_user_field(d2, chat_id, "dalle_rate", rate.dalle_rate)
      d4 == update_user_field(d3, chat_id, "whisper_rate", rate.whisper_rate)
      d6 == update_user_field(d4, chat_id, "rate_end_date", now + TrialDays)
      d7 == update_user_field(d6, chat_id, "rate_type", rate_type)
  IN update_user_field(d7, chat_id, "is_free", FALSE)

\* a renewal that adds the new period to the date the row holds
RenewFieldsExtend(db, chat_id, rate_type, now) ==
  LET rate == Rates[rate_type]
      d1 == update_user_field(db, chat_id, "gpt4_rate", rate.gpt4_rate)
      d2 == update_user_field(d1, chat_id, "gpt35_rate", rate.gpt35_rate)
      d3 == update_user_field(d2, chat_id, "dalle_rate", rate.dalle_rate)
      d4 == update_user_field(d3, chat_id, "whisper_rate", rate.whisper_rate)
      d5 == update_user_field(d4, chat_id, "tts_rate", rate.tts_rate)
      d6 == update_user_field(d5, chat_id, "rate_end_date",
                              IF chat_id \in DOMAIN db /\ db[chat_id].rate_end_date > now
                              THEN db[chat_id].rate_end_date + RenewDays
                              ELSE now + RenewDays)
      d7 == update_user_field(d6, chat_id, "rate_type", rate_type)
  IN update_user_field(d7, chat_id, "is_free", FALSE)

\* the eight update_user_field calls shared by check_pay and change_rate
RenewFields(db, chat_id, rate_type, now) ==
  LET rate == Rates[rate_type]
      d1 == update_user_field(db, chat_id, "gpt4_rate", rate.gpt4_rate)
      d2 == update_user_field(d1, chat_id, "gpt35_rate", rate.gpt35_rate)
      d3 == update_user_field(d2, chat_id, "dalle_rate", rate.dalle_rate)
      d4 == update_user_field(d3, chat_id, "whisper_rate", rate.whisper_rate)
      d5 == update_user_field(d4, chat_id, "tts_rate", rate.tts_rate)
      d6 == update_user_field(d5, chat_id, "rate_end_date", now + RenewDays)
      d7 == update_user_field(d6, chat_id, "rate_type", rate_type)
  IN update_user_field(d7, chat_id, "is_free", FALSE)

\* check_pay: the first tier, in table order, whose price equals summ; 0 if none
RECURSIVE FindRateFrom(_, _)
FindRateFrom(idx, summ) ==
  IF idx > Len(RateKeys) THEN 0
  ELSE IF Rates[RateKeys[idx]].price = summ THEN idx
  ELSE FindRateFrom(idx + 1, summ)

FindRate(summ) == FindRateFrom(1, summ)

\* a check_pay that never recognises a payment id
AlreadyPaidNever(db, user_id, payment_id) == FALSE

\* check_pay: payment_id == int(last_pay_id); a missing row or a NULL column
\* raises, the exception is swallowed and the payment is treated as new
AlreadyPaid(db, user_id, payment_id) ==
  /\ user_id \in DOMAIN db
  /\ db[user_id].last_pay_id # NullPayId
  /\ payment_id = ParseInt(db[user_id].last_pay_id)

\* a check_pay that does not look at the state code
CheckPayResultAnyCode(db, user_id, payment_id, outsum, code, now) ==
  IF AlreadyPaid(db, user_id, payment_id) THEN db
  ELSE LET idx == FindRate(IntOfFloat(outsum))
       IN IF idx = 0 THEN db
          ELSE update_user_field(RenewFields(db, user_id, RateKeys[idx], now),
                                 user_id, "last_pay_id", ToStr(payment_id))

\* the users table after the check_pay callback
CheckPayResult(db, user_id, payment_id, outsum, code, now) ==
  IF code # SuccessCode THEN db
  ELSE IF AlreadyPaid(db, user_id, payment_id) THEN db
  ELSE LET idx == FindRate(IntOfFloat(outsum))
       IN IF idx = 0 THEN db
          ELSE update_user_field(RenewFields(db, user_id, RateKeys[idx], now),
                                 user_id, "last_pay_id", ToStr(payment_id))

\* a debit that stops at zero
DebitValueClamped(snapshot, kind, cost) ==
  IF snapshot[kind] - cost < 0 THEN 0 ELSE snapshot[kind] - cost

\* the balance a billable request stores: the balance of the row it read at
\* check_rate_limit minus its cost
DebitValue(snapshot, kind, cost) == snapshot[kind] - cost

\* a debit that decrements the stored balance instead of the balance read earlier
DebitInPlace(db, sender, snapshot, kind, cost) ==
  IF sender \in DOMAIN db
  THEN update_user_field(db, sender, kind, db[sender][kind] - cost)
  ELSE db

\* a debit that stores the whole row the handler read, with the new balance
DebitWholeRow(db, sender, snapshot, kind, cost) ==
  IF sender \in DOMAIN db
  THEN [db EXCEPT ![sender] = [snapshot EXCEPT ![kind] = snapshot[kind] - cost]]
  ELSE db

\* the users table after a handler's debit: update_user_field on the sender's
\* row with the value computed from the row the handler read before its await
Debit(db, sender, snapshot, kind, cost) ==
  update_user_field(db, sender, kind, DebitValue(snapshot, kind, cost))

\* the column and the amount a handler debits once its AI call returned
DebitKind(q) ==
  CASE q.handler = "prompt" -> ChatKind(q.user)
    [] q.handler = "image" -> "dalle_rate"
    [] q.handler = "tts" -> "tts_rate"
    [] q.handler = "vision" -> "gpt4_rate"
    [] OTHER -> IF q.pc = "ai" THEN "whisper_rate" ELSE ChatKind(q.user)

DebitCost(q, n) ==
  CASE q.handler = "image" -> 1
    [] q.handler = "vision" -> n + VisionTokenPrice
    [] q.handler = "transcribe" /\ q.pc = "ai" -> 1
    [] OTHER -> n

InFlight == BagToSet(req)

\* the steps that end with a completion of the chat model: the answer of
\* prompt and the answer transcribe gives to the transcript
IsChatCompletion(q) ==
  q.handler = "prompt" \/ (q.handler = "transcribe" /\ q.pc = "reply")

\* the handler passed check_rate_limit for this column before it started work
CheckedKind(q, kind) ==
  \E j \in 1..Len(HandlerChecks(q.handler, q.user)) :
     HandlerChecks(q.handler, q.user)[j] = kind

(* ------------------------------- actions ------------------------------- *)
\* the row /start passes to create_user
TrialRow(now) ==
  [gpt4_rate |-> Rates["base"].gpt4_rate, gpt35_rate |-> Rates["base"].gpt35_rate,
   dalle_rate |-> Rates["base"].dalle_rate, whisper_rate |-> Rates["base"].whisper_rate,
   tts_rate |-> Rates["base"].tts_rate, rate_end_date |-> now + TrialDays,
   rate_type |-> "base", is_free |-> TRUE, last_pay_id |-> NullPayId]

\* /start in a chat without a row: the trial grant
StartCmd(c) ==
  /\ ~is_user_exists(users, c)
  /\ users' = create_user(users, c, TrialRow(today))
  /\ base' = [base EXCEPT ![c] = Balances(users'[c])]
  /\ spent' = [spent EXCEPT ![c] = ZeroKinds]
  /\ last' = NoCheck
  /\ UNCHANGED <<today, req, credited, lastConf, nOps>>
  /\ UNCHANGED aux
  /\ UNCHANGED pvars
  /\ UNCHANGED rvars
  /\ UNCHANGED predvars

\* a billable handler up to its first await on an AI collaborator: the
\* check_rate_limit calls; when all pass the handler keeps the row it read
Begin(h, c, s) ==
  /\ BagCardinality(req) < MaxInflight
  /\ is_user_exists(users, c)
  /\ LET res == RunChecks(users, c, HandlerChecks(h, users[c]), today)
     IN /\ last' = res
        /\ req' = IF res.okay
                  THEN req (+) SetToBag({[pc |-> "ai", handler |-> h, chat |-> c,
                                          sender |-> s, user |-> users[c]]})
                  ELSE req
  /\ nOps' = nOps + 1
  /\ UNCHANGED <<users, today, base, spent, credited, lastConf>>
  /\ UNCHANGED aux
  /\ UNCHANGED pvars
  /\ UNCHANGED rvars
  /\ UNCHANGED predvars

\* the AI call returned: the handler writes its debit to the sender's row.
\* more = TRUE only for transcribe, when a chat reply to the transcript follows
Finish(q, n, more) ==
  /\ q \in InFlight
  /\ more => (q.handler = "transcribe" /\ q.pc = "ai")
  /\ users' = Debit(users, q.sender, q.user, DebitKind(q), DebitCost(q, n))
  /\ spent' = [spent EXCEPT ![q.sender][DebitKind(q)] = @ + DebitCost(q, n)]
  /\ req' = (req (-) SetToBag({q}))
              (+) (IF more THEN SetToBag({[q EXCEPT !.pc = "reply"]}) ELSE EmptyBag)
  /\ last' = NoCheck
  /\ UNCHANGED <<today, base, credited, lastConf, nOps>>
  /\ UNCHANGED aux
  /\ UNCHANGED pvars
  /\ UNCHANGED rvars
  /\ UNCHANGED predvars

\* the AI call (or an early return after the check) ended the handler
\* without a debit
Fail(q) ==
  /\ q \in InFlight
  /\ req' = req (-) SetToBag({q})
  /\ last' = NoCheck
  /\ UNCHANGED <<users, today, base, spent, credited, lastConf, nOps>>
  /\ UNCHANGED aux
  /\ UNCHANGED pvars
  /\ UNCHANGED rvars
  /\ UNCHANGED predvars

\* the text of the message a handler sends from the except clause around
\* its AI call
FailText(h) ==
  CASE h = "image" -> "image_fail"
    [] h = "tts" -> "tts_fail"
    [] h = "prompt" -> "chat_fail"
    [] OTHER -> "transcribe_fail"

\* an except clause that stores the balance the handler read, unchanged
OnAiErrorWritesBack(db, q) == Debit(db, q.sender, q.user, DebitKind(q), 0)

\* the users table after the except clause: the update_user_field of the try
\* block was not reached
OnAiError(db, q) == db

\* the AI call of image, tts, prompt or transcribe raised: the except clause
\* of the handler logs the exception and sends one message with the failure
\* text; the handler ends
AiRaises(q) ==
  /\ q \in InFlight
  /\ q.handler # "vision"
  /\ users' = OnAiError(users, q)
  /\ req' = req (-) SetToBag({q})
  /\ last' = [NoCheck EXCEPT !.chat = q.chat, !.reason = FailText(q.handler)]
  /\ UNCHANGED <<today, base, spent, credited, lastConf, nOps>>
  /\ UNCHANGED aux
  /\ UNCHANGED pvars
  /\ UNCHANGED rvars
  /\ UNCHANGED predvars

\* the check_pay callback of user u for invoice pid
CheckPay(u, pid, outsum, code) ==
  /\ nOps' = nOps + 1
  /\ users' = CheckPayResult(users, u, pid, outsum, code, today)
  /\ IF users' # users
     THEN /\ base' = [base EXCEPT ![u] = Balances(users'[u])]
          /\ spent' = [spent EXCEPT ![u] = ZeroKinds]
          /\ credited' = [credited EXCEPT ![u] = @ \cup {<<pid, outsum>>}]
     ELSE UNCHANGED <<base, spent, credited>>
  /\ lastConf' =
       IF code = SuccessCode /\ is_user_exists(users, u)
       THEN [lastConf EXCEPT ![u] =
               IF @ # <<>> /\ @[1] = pid /\ @[2] = outsum
               THEN <<pid, outsum, @[3] + 1>> ELSE <<pid, outsum, 1>>]
       ELSE lastConf
  /\ last' = NoCheck
  /\ UNCHANGED <<today, req>>
  /\ UNCHANGED aux
  /\ UNCHANGED pvars
  /\ UNCHANGED rvars
  /\ UNCHANGED predvars

\* the message the check_pay callback sends to the caller
PayText(db, user_id, payment_id, outsum, code) ==
  IF code # SuccessCode THEN "not_received"
  ELSE IF AlreadyPaid(db, user_id, payment_id) THEN "already_paid"
  ELSE IF FindRate(IntOfFloat(outsum)) = 0 THEN "none"
  ELSE "thanks"

\* the check_pay callback pressed by any Telegram user: the gateway is asked
\* for the state of the payment id in the callback data, and the row of the
\* user who pressed the button is renewed
CheckPayFrom(user_id, payment_id, outsum, code) ==
  /\ nOps' = nOps + 1
  /\ users' = CheckPayResult(users, user_id, payment_id, outsum, code, today)
  /\ last' = [NoCheck EXCEPT
               !.chat = user_id,
               !.reason = PayText(users, user_id, payment_id, outsum, code),
               !.sent = IF PayText(users, user_id, payment_id, outsum, code) = "none"
                        THEN 0 ELSE 1,
               !.button = IF code = 0 THEN "check_pay" ELSE "none"]
  /\ UNCHANGED <<today, req, base, spent, credited, lastConf>>
  /\ UNCHANGED aux
  /\ UNCHANGED pvars
  /\ UNCHANGED rvars
  /\ UNCHANGED predvars

\* /change_rate <target> <rate_number> sent by an admin, target row exists
ChangeRate(target, rate_number) ==
  /\ nOps' = nOps + 1
  /\ is_user_exists(users, target)
  /\ users' = RenewFields(users, target, RateKeys[rate_number], today)
  /\ base' = [base EXCEPT ![target] = Balances(users'[target])]
  /\ spent' = [spent EXCEPT ![target] = ZeroKinds]
  /\ last' = NoCheck
  /\ UNCHANGED <<today, req, credited, lastConf>>
  /\ UNCHANGED aux
  /\ UNCHANGED pvars
  /\ UNCHANGED rvars
  /\ UNCHANGED predvars

\* a change_rate that does not ask whether the caller is an admin
ChangeRateOutcomeAnyCaller(db, admin, nargs, rate_number, target) ==
  IF nargs + 1 # 3 THEN "usage"
  ELSE IF rate_number < 0 \/ rate_number \notin {1, 2, 3, 4} THEN "bad_rate"
  ELSE IF ~is_user_exists(db, target) THEN "not_found"
  ELSE "changed"

\* change_rate: the early returns in the order of the code, named by the
\* reply each one sends; rate_number.isdigit() is rate_number >= 0
ChangeRateOutcome(db, admin, nargs, rate_number, target) ==
  IF ~admin THEN "admin_disallowed"
  ELSE IF nargs + 1 # 3 THEN "usage"
  ELSE IF rate_number < 0 \/ rate_number \notin {1, 2, 3, 4} THEN "bad_rate"
  ELSE IF ~is_user_exists(db, target) THEN "not_found"
  ELSE "changed"

\* /change_rate with nargs arguments sent by any user; admin is the answer of
\* is_admin for the sender, target the chat id the first argument names
ChangeRateCmd(admin, nargs, rate_number, target) ==
  /\ nOps' = nOps + 1
  /\ users' = IF ChangeRateOutcome(users, admin, nargs, rate_number, target) = "changed"
              THEN RenewFields(users, target, RateKeys[rate_number], today)
              ELSE users
  /\ last' = [NoCheck EXCEPT
               !.reason = ChangeRateOutcome(users, admin, nargs, rate_number, target),
               !.sent = 1]
  /\ UNCHANGED <<today, req, base, spent, credited, lastConf>>
  /\ UNCHANGED aux
  /\ UNCHANGED pvars
  /\ UNCHANGED rvars
  /\ UNCHANGED predvars

\* the date changes
Tick(d) ==
  /\ today + d <= MaxDay
  /\ today' = today + d
  /\ last' = NoCheck
  /\ UNCHANGED <<users, req, base, spent, credited, lastConf, nOps>>
  /\ UNCHANGED aux
  /\ UNCHANGED pvars
  /\ UNCHANGED rvars
  /\ UNCHANGED predvars

\* /start up to its first await: with a row the help text is shown and the
\* handler ends; without a row the handler goes on to greet the user
StartCheck(c) ==
  /\ nOps' = nOps + 1
  /\ IF is_user_exists(users, c)
     THEN /\ last' = [NoCheck EXCEPT !.chat = c, !.reason = "help"]
          /\ UNCHANGED starting
     ELSE /\ last' = NoCheck
          /\ starting' = [starting EXCEPT ![c] = @ + 1]
  /\ UNCHANGED <<users, today, req, base, spent, credited, lastConf, inline_queries_cache,
                 answered>>
  /\ UNCHANGED pvars
  /\ UNCHANGED rvars
  /\ UNCHANGED predvars

\* /start after its awaits (the greeting, the note to the admin group):
\* create_user with the date of this moment
StartCreate(c) ==
  /\ starting[c] > 0
  /\ starting' = [starting EXCEPT ![c] = @ - 1]
  /\ users' = create_user(users, c, TrialRow(today))
  /\ IF is_user_exists(users, c)
     THEN /\ last' = [NoCheck EXCEPT !.chat = c, !.reason = "IntegrityError"]
          /\ UNCHANGED <<base, spent>>
     ELSE /\ last' = [NoCheck EXCEPT !.chat = c, !.reason = "created"]
          /\ base' = [base EXCEPT ![c] = Balances(users'[c])]
          /\ spent' = [spent EXCEPT ![c] = ZeroKinds]
  /\ UNCHANGED <<today, req, credited, lastConf, nOps, inline_queries_cache, answered>>
  /\ UNCHANGED pvars
  /\ UNCHANGED rvars
  /\ UNCHANGED predvars

\* a billable handler in a chat without a row: get_user returns None and the
\* first attribute read (user.rate_type, user.rate_end_date) raises
\* AttributeError; no row is created
BeginNoUser(h, c) ==
  /\ ~is_user_exists(users, c)
  /\ nOps' = nOps + 1
  /\ last' = [NoCheck EXCEPT !.chat = c, !.reason = "AttributeError"]
  /\ UNCHANGED <<users, today, req, base, spent, credited, lastConf, aux>>
  /\ UNCHANGED pvars
  /\ UNCHANGED rvars
  /\ UNCHANGED predvars

\* inline_query: a query of three characters or more from an allowed user is
\* stored under a fresh result id (uuid4: an id that was never issued; the
\* ids issued are those in the cache and those popped from it); the account
\* is not read
InlineQuery(rid) ==
  /\ rid \notin inline_queries_cache
  /\ rid \notin answered
  /\ inline_queries_cache' = inline_queries_cache \cup {rid}
  /\ nOps' = nOps + 1
  /\ last' = NoCheck
  /\ UNCHANGED <<users, today, req, base, spent, credited, lastConf, starting, answered>>
  /\ UNCHANGED pvars
  /\ UNCHANGED rvars
  /\ UNCHANGED predvars

\* a callback that reads the cached query and leaves it in the cache
PopQueryKeeps(cache, unique_id) == cache

\* self.inline_queries_cache.pop(unique_id)
PopQuery(cache, unique_id) == cache \ {unique_id}

\* the "gpt:<result id>" callback of user u with a cached query: the query is
\* popped and sent to the chat model; ok = the model answered with n tokens.
\* The handler calls neither check_rate_limit (last' holds no outcome of a
\* check) nor update_user_field.
InlineGpt(u, rid, n, ok) ==
  /\ rid \in inline_queries_cache
  /\ inline_queries_cache' = PopQuery(inline_queries_cache, rid)
  /\ answered' = answered \cup {rid}
  /\ nOps' = nOps + 1
  /\ last' = [NoCheck EXCEPT !.reason = "inline_completion"]
  /\ UNCHANGED <<users, today, req, base, spent, credited, lastConf, starting>>
  /\ UNCHANGED pvars
  /\ UNCHANGED rvars
  /\ UNCHANGED predvars

\* the same callback when the cache holds nothing under the id: an error
\* text is shown and the handler returns
InlineMiss(u, rid) ==
  /\ rid \notin inline_queries_cache
  /\ nOps' = nOps + 1
  /\ last' = [NoCheck EXCEPT !.reason = "inline_error"]
  /\ UNCHANGED <<users, today, req, base, spent, credited, lastConf, aux>>
  /\ UNCHANGED pvars
  /\ UNCHANGED rvars
  /\ UNCHANGED predvars

(* ---------------------- Replicate.run and its prediction ---------------- *)
\* the statuses in which run keeps polling
Pending == {"starting", "processing"}
\* the statuses a prediction ends in
Terminal == {"succeeded", "failed", "canceled"}
\* response["output"] of a prediction that succeeded
Outputs == {1, 2}

\* the call has neither returned nor raised
NoResult == [kind |-> "none", value |-> 0, status |-> "none"]

\* a loop that sleeps on every status other than "succeeded"
RunGetOutcomeWaits(st) ==
  IF st = "succeeded" THEN "returned" ELSE "sleep"

\* the branch of the loop body for a polled status
RunGetOutcome(st) ==
  IF st = "succeeded" THEN "returned"
  ELSE IF st = "processing" \/ st = "starting" THEN "sleep"
  ELSE "raised"

\* run is called: post creates the prediction, which the service starts
RunPost ==
  /\ run_pc \in {"idle", "returned", "raised"}
  /\ status' = "starting"
  /\ output' = 0
  /\ run_pc' = "poll"
  /\ polled' = "none"
  /\ result' = NoResult
  /\ npolls' = 0
  /\ UNCHANGED quota
  /\ UNCHANGED pvars
  /\ UNCHANGED rvars

\* one pass of the while loop up to its return, raise or sleep
RunGet ==
  /\ run_pc = "poll"
  /\ polled' = status
  /\ run_pc' = RunGetOutcome(status)
  /\ result' =
       CASE RunGetOutcome(status) = "returned" ->
              [kind |-> "return", value |-> output, status |-> "none"]
         [] RunGetOutcome(status) = "raised" ->
              [kind |-> "exception", value |-> output, status |-> status]
         [] OTHER -> result
  /\ npolls' = Min(npolls + 1, MaxPolls)
  /\ UNCHANGED <<status, output>>
  /\ UNCHANGED quota
  /\ UNCHANGED pvars
  /\ UNCHANGED rvars

\* time.sleep(5) ends and the loop starts its next pass
RunWake ==
  /\ run_pc = "sleep"
  /\ run_pc' = "poll"
  /\ UNCHANGED <<status, output, polled, result, npolls>>
  /\ UNCHANGED quota
  /\ UNCHANGED pvars
  /\ UNCHANGED rvars

\* the service moves the prediction on: from starting to processing, or from
\* either to a final status; the output is set when it succeeds
PredictionStep(st, out) ==
  /\ status \in Pending
  /\ st # status
  /\ st \in Terminal \cup {"processing"}
  /\ status' = st
  /\ output' = IF st = "succeeded" THEN out ELSE 0
  /\ UNCHANGED <<run_pc, polled, result, npolls>>
  /\ UNCHANGED quota
  /\ UNCHANGED pvars
  /\ UNCHANGED rvars

Init ==
  /\ users = <<>>
  /\ today = 0
  /\ req = EmptyBag
  /\ last = NoCheck
  /\ base = [c \in Ids |-> ZeroKinds]
  /\ spent = [c \in Ids |-> ZeroKinds]
  /\ credited = [c \in Ids |-> {}]
  /\ lastConf = [c \in Ids |-> <<>>]
  /\ nOps = 0
  /\ inline_queries_cache = {}
  /\ starting = [c \in Ids |-> 0]
  /\ answered = {}
  /\ phase = "idle"
  /\ content = 0
  /\ seenText = FALSE
  /\ nPartials = 0
  /\ i = 0
  /\ prev = 0
  /\ sent_message = 0
  /\ backoff = 0
  /\ stream_chunk = 0
  /\ total_tokens = 0
  /\ messages = <<>>
  /\ sendsIssued = 0
  /\ sendsOk = 0
  /\ editsFailed = 0
  /\ rejected = 0
  /\ finalized = {}
  /\ obs = NoObs
  /\ replyPath = "none"
  /\ response = 0
  /\ index = 0
  /\ replies = <<>>
  /\ replyCalls = 0
  /\ raised = FALSE
  /\ status = "none"
  /\ output = 0
  /\ run_pc = "idle"
  /\ polled = "none"
  /\ result = NoResult
  /\ npolls = 0

Next ==
  \/ \E c \in Ids : StartCmd(c)
  \/ \E h \in Handlers, u \in UserIds : nOps < MaxOps /\ Begin(h, u, u)
  \/ \E q \in InFlight, n \in TokenCosts, more \in BOOLEAN : Finish(q, n, more)
  \/ \E q \in InFlight : Fail(q)
  \/ \E u \in UserIds, pid \in PayIds, o \in OutSums, code \in StateCodes :
        nOps < MaxOps /\ CheckPay(u, pid, o, code)
  \/ \E t \in Ids, n \in RateNumbers : nOps < MaxOps /\ ChangeRate(t, n)
  \/ \E d \in DaySteps : Tick(d)

\* every update is handled concurrently with the others (concurrent_updates)
Spec == Init /\ [][Next]_vars

\* the same handlers when no update arrives while a request is in flight
NextSeq ==
  \/ \E c \in Ids : StartCmd(c)
  \/ \E h \in Handlers, u \in UserIds :
        nOps < MaxSeqOps /\ req = EmptyBag /\ Begin(h, u, u)
  \/ \E q \in InFlight, n \in TokenCosts, more \in BOOLEAN : Finish(q, n, more)
  \/ \E q \in InFlight : Fail(q)
  \/ \E u \in UserIds, pid \in PayIds, o \in OutSums, code \in StateCodes :
        nOps < MaxSeqOps /\ req = EmptyBag /\ CheckPay(u, pid, o, code)
  \/ \E t \in Ids, n \in RateNumbers :
        nOps < MaxSeqOps /\ req = EmptyBag /\ ChangeRate(t, n)
  \/ \E d \in DaySteps : Tick(d)

SpecSeq == Init /\ [][NextSeq]_vars

\* DB.create_user for one of the chats the store is called with
StoreCreate(c) ==
  /\ ~is_user_exists(users, c)
  /\ users' = create_user(users, c, TrialRow(today))
  /\ last' = NoCheck
  /\ UNCHANGED <<today, req, base, spent, credited, lastConf, nOps>>
  /\ UNCHANGED aux
  /\ UNCHANGED pvars
  /\ UNCHANGED rvars
  /\ UNCHANGED predvars

\* one call DB.update_user_field(chat_id, field_name, new_value); the call
\* returns None on both paths: after the commit, or without one when the
\* query found no row
SetField(chat_id, field_name, new_value) ==
  /\ users' = update_user_field(users, chat_id, field_name, new_value)
  /\ last' = [NoCheck EXCEPT !.chat = chat_id,
                             !.reason = IF is_user_exists(users, chat_id)
                                        THEN "commit" ELSE "no_row"]
  /\ nOps' = nOps + 1
  /\ UNCHANGED <<today, req, base, spent, credited, lastConf>>
  /\ UNCHANGED aux
  /\ UNCHANGED pvars
  /\ UNCHANGED rvars
  /\ UNCHANGED predvars

\* the account store called with rows that exist and rows that do not
NextStore ==
  \/ \E c \in StoreIds : StoreCreate(c)
  \/ \E c \in StoreIds, f \in Fields :
        \E v \in FieldValues(f) : nOps < MaxStoreOps /\ SetField(c, f, v)

SpecStore == Init /\ [][NextStore]_vars

\* payment confirmations pressed by two Telegram users, and /change_rate
\* commands
NextPay ==
  \/ \E c \in StoreIds : StoreCreate(c)
  \/ \E u \in StoreIds, pid \in PayIds, o \in OutSums, code \in StateCodes :
        nOps < MaxPayOps /\ CheckPayFrom(u, pid, o, code)
  \/ \E admin \in BOOLEAN, nargs \in ArgCounts, n \in RateArgs, t \in StoreIds :
        nOps < MaxPayOps /\ ChangeRateCmd(admin, nargs, n, t)
  \/ \E d \in DaySteps : Tick(d)

SpecPay == Init /\ [][NextPay]_vars

\* requests sent by a user in the private chat (chat id = user id) and in a
\* group chat (another chat id); /start was given in some of the chats
NextGroup ==
  \/ \E c \in StoreIds : StoreCreate(c)
  \/ \E h \in Handlers, c \in StoreIds, u \in UserIds :
        nOps < MaxGroupOps /\ Begin(h, c, u)
  \/ \E q \in InFlight, n \in TokenCosts, more \in BOOLEAN : Finish(q, n, more)
  \/ \E q \in InFlight : Fail(q)

SpecGroup == Init /\ [][NextGroup]_vars

\* overlapping requests of which some end in the except clause around the
\* AI call
NextFail ==
  \/ \E c \in Ids : StartCmd(c)
  \/ \E h \in Handlers, u \in UserIds : nOps < MaxFailOps /\ Begin(h, u, u)
  \/ \E q \in InFlight, n \in TokenCosts, more \in BOOLEAN : Finish(q, n, more)
  \/ \E q \in InFlight : AiRaises(q)
  \/ \E d \in DaySteps : Tick(d)

SpecFail == Init /\ [][NextFail]_vars

(* ----------------- the streamed answer of prompt (1713-1816) ------------- *)
\* growth of the cumulative answer between two partials; 0: the stream
\* yields the same text again (as it does with the final token count)
Steps == {0, 1, ChunkSize - 2, ChunkSize + 1}

\* what the transport answers to an edit or a delete, and to a send
EditOutcomes == {"ok", "RetryAfter", "TimedOut", "Error"}
SendOutcomes == {"ok", "Error"}

\* the second component of what the stream yields: "not_finished" (here 0)
\* or, with the last partial, the token count
NotFinished == 0
FinalTokens == 3
StreamTokens == {NotFinished, FinalTokens}

\* the loop body for one partial of cumulative length content + step.
\* isBlank: the partial is whitespace only; tokens: "not_finished" or the
\* token count, which ends the stream; o1: the transport's answer to the
\* edit or delete of this iteration, o2: to its reply_text
Partial(step, isBlank, tokens, o1, o2) ==
  /\ phase = "streaming"
  /\ nPartials < MaxPartials
  /\ content + step <= MaxLen
  /\ isBlank => ~seenText
  /\ ~isBlank => content + step > 0
  /\ nPartials' = nPartials + 1
  /\ content' = content + step
  /\ seenText' = (seenText \/ ~isBlank)
  /\ phase' = IF tokens # NotFinished THEN "done" ELSE "streaming"
  /\ LET fin == tokens # NotFinished
         T == tokens
         L == content + step
         stream_chunks == split_into_chunks(L)
         n == Len(stream_chunks)
         c == stream_chunks[n]            \* the text the iteration goes on with
         clen == c[2] - c[1]
         cutoff == StreamCutoff(clen, backoff)
         o0 == [NoObs EXCEPT !.whole = L, !.len = clen, !.delta = step, !.fin = fin,
                             !.prev = prev, !.cutoff = cutoff, !.backoff = backoff,
                             !.first = (sendsOk = 0), !.live = sent_message]
     IN IF isBlank
        THEN \* len(content.strip()) == 0: continue
             /\ obs' = [NoObs EXCEPT !.branch = "blank", !.whole = L, !.delta = step,
                                    !.fin = fin, !.first = (sendsOk = 0)]
             /\ UNCHANGED <<i, prev, sent_message, backoff, stream_chunk, total_tokens,
                            messages, sendsIssued, sendsOk, editsFailed, rejected,
                            finalized>>
        ELSE IF n > 1 /\ stream_chunk # n - 1
        THEN \* the text reached a further chunk: the live message gets the
             \* last but one chunk, the last chunk goes into a new message
             LET e == IF sent_message = 0 THEN "AttributeError"
                      ELSE IF messages[sent_message].deleted THEN "Error" ELSE o1
                 m1 == IF e = "ok"
                       THEN [messages EXCEPT ![sent_message] =
                               [text |-> stream_chunks[n - 1], md |-> TRUE, deleted |-> FALSE]]
                       ELSE messages
             IN /\ stream_chunk' = stream_chunk + 1
                /\ messages' = IF o2 = "ok"
                               THEN Append(m1, [text |-> c, md |-> FALSE, deleted |-> FALSE])
                               ELSE m1
                /\ sent_message' = IF o2 = "ok" THEN Len(m1) + 1 ELSE sent_message
                /\ sendsIssued' = sendsIssued + 1
                /\ sendsOk' = IF o2 = "ok" THEN sendsOk + 1 ELSE sendsOk
                /\ editsFailed' = IF e \notin {"ok", "AttributeError"}
                                  THEN editsFailed + 1 ELSE editsFailed
                /\ rejected' = rejected + (IF e \notin {"ok", "AttributeError"} THEN 1 ELSE 0)
                                       + (IF o2 = "ok" THEN 0 ELSE 1)
                /\ finalized' = IF e = "ok" THEN finalized \cup {sent_message}
                                ELSE finalized
                /\ obs' = [o0 EXCEPT !.branch = "roll", !.edit = e, !.send = o2]
                /\ UNCHANGED <<i, prev, backoff, total_tokens>>
        ELSE IF i = 0
        THEN \* nothing was sent through this branch yet: a message left by
             \* the branch above is deleted, then the text is sent as the reply
             LET d == IF sent_message = 0 THEN "none"
                      ELSE IF messages[sent_message].deleted THEN "Error" ELSE o1
                 m1 == IF d = "ok"
                       THEN [messages EXCEPT ![sent_message].deleted = TRUE]
                       ELSE messages
                 sending == d \in {"none", "ok"}
                 sentOk == sending /\ o2 = "ok"
             IN /\ messages' = IF sentOk
                               THEN Append(m1, [text |-> c, md |-> FALSE, deleted |-> FALSE])
                               ELSE m1
                /\ sent_message' = IF sentOk THEN Len(m1) + 1 ELSE sent_message
                /\ sendsIssued' = IF sending THEN sendsIssued + 1 ELSE sendsIssued
                /\ sendsOk' = IF sentOk THEN sendsOk + 1 ELSE sendsOk
                /\ i' = IF sentOk THEN NextIteration(i) ELSE i
                /\ total_tokens' = IF sentOk /\ fin THEN T ELSE total_tokens
                /\ rejected' = rejected + (IF d \in {"none", "ok"} THEN 0 ELSE 1)
                                       + (IF sending /\ o2 # "ok" THEN 1 ELSE 0)
                /\ obs' = [o0 EXCEPT !.branch = "send", !.delete = d,
                                     !.send = IF sending THEN o2 ELSE "none"]
                /\ UNCHANGED <<prev, backoff, stream_chunk, editsFailed, finalized>>
        ELSE IF ShouldEdit(clen, prev, cutoff, fin)
        THEN \* the live message is edited; markdown only with the final text
             LET e == IF messages[sent_message].deleted THEN "Error" ELSE o1
             IN /\ prev' = clen
                /\ messages' = IF e = "ok"
                               THEN [messages EXCEPT ![sent_message] =
                                       [text |-> c, md |-> fin, deleted |-> FALSE]]
                               ELSE messages
                /\ backoff' = IF e = "ok" THEN backoff ELSE BackoffAfterFailure(backoff)
                /\ editsFailed' = IF e = "ok" THEN editsFailed ELSE editsFailed + 1
                /\ i' = IF e = "ok" THEN NextIteration(i) ELSE i
                /\ total_tokens' = IF e = "ok" /\ fin THEN T ELSE total_tokens
                /\ rejected' = IF e = "ok" THEN rejected ELSE rejected + 1
                /\ obs' = [o0 EXCEPT !.branch = "edit", !.edit = e]
                /\ UNCHANGED <<sent_message, stream_chunk, sendsIssued, sendsOk, finalized>>
        ELSE \* the change is too small for an edit
             /\ i' = NextIteration(i)
             /\ obs' = [o0 EXCEPT !.branch = "suppress"]
             /\ UNCHANGED <<prev, sent_message, backoff, stream_chunk, total_tokens,
                            messages, sendsIssued, sendsOk, editsFailed, rejected,
                            finalized>>
  /\ UNCHANGED quota
  /\ UNCHANGED rvars
  /\ UNCHANGED predvars

\* prompt with config stream: the locals of a new request (1724-1728)
StreamStart ==
  /\ phase = "idle"
  /\ phase' = "streaming"
  /\ UNCHANGED <<content, seenText, nPartials, i, prev, sent_message, backoff,
                 stream_chunk, total_tokens, messages, sendsIssued, sendsOk,
                 editsFailed, rejected, finalized, obs>>
  /\ UNCHANGED quota
  /\ UNCHANGED rvars
  /\ UNCHANGED predvars

\* the loop of a streamed prompt ended: add_chat_request_to_usage_tracker
\* and the debit of total_tokens from the balance read at check_rate_limit
\* (1862-1877)
StreamFinish(q) ==
  /\ q \in InFlight
  /\ q.handler = "prompt"
  /\ phase = "done"
  /\ phase' = "billed"
  /\ users' = Debit(users, q.sender, q.user, DebitKind(q), total_tokens)
  /\ spent' = [spent EXCEPT ![q.sender][DebitKind(q)] = @ + total_tokens]
  /\ req' = req (-) SetToBag({q})
  /\ last' = NoCheck
  /\ UNCHANGED <<today, base, credited, lastConf, nOps>>
  /\ UNCHANGED aux
  /\ UNCHANGED <<content, seenText, nPartials, i, prev, sent_message, backoff,
                 stream_chunk, total_tokens, messages, sendsIssued, sendsOk,
                 editsFailed, rejected, finalized, obs>>
  /\ UNCHANGED rvars
  /\ UNCHANGED predvars

\* one prompt with config stream, from its check_rate_limit to its debit
NextStreamBill ==
  \/ \E c \in Ids : StartCmd(c)
  \/ \E u \in UserIds : phase = "idle" /\ req = EmptyBag /\ Begin("prompt", u, u)
  \/ req # EmptyBag /\ StreamStart
  \/ \E step \in Steps, isBlank \in BOOLEAN, tokens \in StreamTokens,
        o1 \in EditOutcomes, o2 \in SendOutcomes :
        req # EmptyBag /\ Partial(step, isBlank, tokens, o1, o2)
  \/ \E q \in InFlight : StreamFinish(q)

SpecStreamBill == Init /\ [][NextStreamBill]_vars

NextStream ==
  \/ StreamStart
  \/ \E step \in Steps, isBlank \in BOOLEAN, tokens \in StreamTokens,
        o1 \in EditOutcomes, o2 \in SendOutcomes :
        Partial(step, isBlank, tokens, o1, o2)

SpecStream == Init /\ [][NextStream]_vars

(* ------------- an answer sent without streaming (1829-1856) -------------- *)
\* the handlers that send a complete text chunk by chunk
ReplyPaths == {"prompt", "transcribe"}

\* a loop that marks every message as a reply
IsReplyAlways(index_) == TRUE

\* reply_to_message_id = get_reply_to_message_id(...) if index == 0 else None
IsReply(index_) == index_ = 0

\* the complete text arrived: chunks = split_into_chunks(response)
ReplyStart(path, len) ==
  /\ replyPath = "none"
  /\ replyPath' = path
  /\ response' = len
  /\ UNCHANGED <<index, replies, replyCalls, raised>>
  /\ UNCHANGED quota
  /\ UNCHANGED pvars
  /\ UNCHANGED predvars

\* one iteration of the for loop over chunks.  o1: the transport's answer to
\* the reply_text with parse_mode MARKDOWN; o2: its answer to the reply_text
\* without parse_mode, which only _reply of prompt makes, in its except
\* clause; an exception that is not caught there leaves the loop
ReplyChunk(o1, o2) ==
  /\ replyPath # "none"
  /\ ~raised
  /\ index < Len(split_into_chunks(response))
  /\ LET chunk == split_into_chunks(response)[index + 1]
         again == o1 # "ok" /\ replyPath = "prompt"
         sent == o1 = "ok" \/ (again /\ o2 = "ok")
     IN /\ replyCalls' = replyCalls + (IF again THEN 2 ELSE 1)
        /\ replies' = IF sent
                       THEN Append(replies, [text |-> chunk, md |-> (o1 = "ok"),
                                             reply |-> IsReply(index)])
                       ELSE replies
        /\ index' = IF sent THEN index + 1 ELSE index
        /\ raised' = ~sent
  /\ UNCHANGED <<replyPath, response>>
  /\ UNCHANGED quota
  /\ UNCHANGED pvars
  /\ UNCHANGED predvars

NextReply ==
  \/ \E path \in ReplyPaths, len \in 1..MaxLen : ReplyStart(path, len)
  \/ \E o1 \in SendOutcomes, o2 \in SendOutcomes : ReplyChunk(o1, o2)

SpecReply == Init /\ [][NextReply]_vars

\* calls of Replicate.run, one after another, and the service
NextRun ==
  \/ RunPost
  \/ RunGet
  \/ RunWake
  \/ \E st \in Terminal \cup {"processing"}, out \in Outputs : PredictionStep(st, out)

\* run is synchronous code: a get that was sent is answered and a sleep ends,
\* so the loop always takes its next step; nothing is assumed of the service
SpecRun ==
  Init /\ [][NextRun]_vars /\ WF_vars(RunGet) /\ WF_vars(RunWake)

\* the chat handlers one after another, together with the inline mode
NextInline ==
  \/ \E c \in Ids : StartCmd(c)
  \/ \E h \in ChatHandlers, u \in UserIds :
        nOps < MaxInlineOps /\ req = EmptyBag /\ Begin(h, u, u)
  \/ \E q \in InFlight, n \in TokenCosts, more \in BOOLEAN : Finish(q, n, more)
  \/ \E q \in InFlight : Fail(q)
  \/ \E rid \in ResultIds : nOps < MaxInlineOps /\ InlineQuery(rid)
  \/ \E u \in UserIds, rid \in ResultIds, n \in TokenCosts, ok \in BOOLEAN :
        nOps < MaxInlineOps /\ InlineGpt(u, rid, n, ok)
  \/ \E u \in UserIds, rid \in ResultIds : nOps < MaxInlineOps /\ InlineMiss(u, rid)

SpecInline == Init /\ [][NextInline]_vars

\* the life of an account: /start with its awaits, and the billable handlers
\* in chats with and without a row
NextLife ==
  \/ \E c \in Ids : nOps < MaxLifeOps /\ StartCheck(c)
  \/ \E c \in Ids : StartCreate(c)
  \/ \E h \in Handlers, c \in Ids : nOps < MaxLifeOps /\ BeginNoUser(h, c)
  \/ \E h \in Handlers, u \in UserIds : nOps < MaxLifeOps /\ Begin(h, u, u)
  \/ \E q \in InFlight, n \in TokenCosts, more \in BOOLEAN : Finish(q, n, more)
  \/ \E q \in InFlight : Fail(q)
  \/ \E d \in DaySteps : Tick(d)

SpecLife == Init /\ [][NextLife]_vars

(* ======================================================================= *)
(*                                 claims                                  *)
(* ======================================================================= *)

\* C1: check_rate_limit never returns okay for a row whose rate_end_date is
\* earlier than today, whatever the balance and the resource kind; the call
\* takes the expiry branch, which is tested before any balance test.
C1_ExpiredNeverAllowed ==
  (last.kind # "none" /\ last.user.rate_end_date < last.now)
    => (~last.okay /\ last.reason = "expired")

\* an expired row with a positive balance of the requested kind was checked
C1_Witness ==
  /\ last.kind # "none"
  /\ last.user.rate_end_date < last.now
  /\ last.user[last.kind] > 0
  /\ ~last.okay

\* C2: a request whose debit is written after another write changed the
\* balance it read stores (its own snapshot - its own cost): the stored
\* balance is not the current balance minus its cost, the earlier write is lost.
C2_LostUpdate ==
  [][\A q \in InFlight :
       (/\ q.sender \in DOMAIN users
        /\ users[q.sender][DebitKind(q)] # q.user[DebitKind(q)])
       => \A n \in TokenCosts, more \in BOOLEAN :
            Finish(q, n, more)
            => /\ users'[q.sender][DebitKind(q)] = q.user[DebitKind(q)] - DebitCost(q, n)
               /\ users'[q.sender][DebitKind(q)]
                    # users[q.sender][DebitKind(q)] - DebitCost(q, n)]_vars

\* two overlapping requests of a never-renewed account both finished and the
\* final balance differs from initial - (a1 + a2)
C2_Witness ==
  /\ 1 \in DOMAIN users
  /\ users[1].is_free
  /\ req = EmptyBag
  /\ spent[1]["gpt35_rate"] = 9
  /\ users[1]["gpt35_rate"] # base[1]["gpt35_rate"] - 9

\* C3: when the requests of an account run one after another, the stored
\* balance of every kind is the balance of the last creation/renewal minus
\* the sum of the costs debited since; it is not clamped at zero.
C3_SequentialLedger ==
  \A a \in DOMAIN users : \A k \in Kinds : users[a][k] = base[a][k] - spent[a][k]

\* two debits (3 then 6) on a balance of 5 ended below zero
C3_Witness ==
  /\ 1 \in DOMAIN users
  /\ req = EmptyBag
  /\ base[1]["gpt35_rate"] = 5
  /\ spent[1]["gpt35_rate"] = 9
  /\ users[1]["gpt35_rate"] = -4

\* the row a completed renewal to tier k leaves, with last_pay_id lp
RenewedRow(k, now, lp) ==
  [gpt4_rate |-> Rates[k].gpt4_rate, gpt35_rate |-> Rates[k].gpt35_rate,
   dalle_rate |-> Rates[k].dalle_rate, whisper_rate |-> Rates[k].whisper_rate,
   tts_rate |-> Rates[k].tts_rate, rate_end_date |-> now + 30,
   rate_type |-> k, is_free |-> FALSE, last_pay_id |-> lp]

\* the paid amount is exactly the price of tier k
PaysPriceOf(outsum, k) == outsum = <<Rates[k].price, 0>>

TierNames == {RateKeys[idx] : idx \in 1..Len(RateKeys)}

C5_NeverRecredited ==
  [][\A u \in UserIds, pid \in PayIds, o \in OutSums :
       (<<pid, o>> \in credited[u] /\ CheckPay(u, pid, o, SuccessCode))
       => /\ Balances(users'[u]) = Balances(users[u])
          /\ users'[u].rate_end_date = users[u].rate_end_date
          /\ users'[u].rate_type = users[u].rate_type]_vars

\* C6: a successful confirmation whose paid amount is no tier's price leaves
\* the users table unchanged, last_pay_id included.
C6_NoMatchNoChange ==
  [][\A u \in UserIds, pid \in PayIds, o \in OutSums :
       (/\ \A k \in TierNames : ~PaysPriceOf(o, k)
        /\ CheckPay(u, pid, o, SuccessCode))
       => users' = users]_vars

\* C7: a completed renewal leaves the row with the tier's five table values,
\* the tier's name, rate_end_date = now + 30, is_free = False; the payment
\* path stores the payment id in last_pay_id, the admin path keeps last_pay_id.
C7_RenewalSetsAll ==
  [][nOps' = nOps + 1 =>
     /\ \A u \in UserIds, o \in OutSums, k \in TierNames :
          (is_user_exists(users, u) /\ PaysPriceOf(o, k))
          => \A pid \in PayIds :
               (/\ \A o2 \in OutSums : <<pid, o2>> \notin credited[u]
                /\ CheckPay(u, pid, o, SuccessCode))
               => /\ users'[u] = RenewedRow(k, today, users'[u].last_pay_id)
                  /\ ParseInt(users'[u].last_pay_id) = pid
     /\ \A t \in Ids, n \in RateNumbers :
          ChangeRate(t, n)
          => users'[t] = RenewedRow(RateKeys[n], today, users[t].last_pay_id)]_vars

\* the row right after payment 42 of the top tier's price was credited
C7_Witness ==
  /\ 1 \in DOMAIN users
  /\ users[1] = RenewedRow("gpt-4", today, <<4, 2>>)
  /\ <<42, <<40, 0>>>> \in credited[1]

\* C8: in every reachable state check_rate_limit denies every resource kind
\* for which the tier of the row (rate_type) has a zero allotment.
C8_ZeroAllotmentDenied ==
  \A a \in DOMAIN users : \A k \in Kinds :
     Rates[users[a].rate_type][k] = 0 => ~check_rate_limit(users, a, k, today).okay

\* C9: no debit written by a billable request stores a balance larger than
\* the balance stored just before it.
C9_DebitNeverRaises ==
  [][\A q \in InFlight, n \in TokenCosts, more \in BOOLEAN :
       (Finish(q, n, more) /\ q.sender \in DOMAIN users)
       => users'[q.sender][DebitKind(q)] <= users[q.sender][DebitKind(q)]]_vars

\* C10: a check on a non-expired row with a positive balance passes and the
\* request is served; a chat request whose cost exceeds the balance lowers the
\* stored balance by the full cost, below zero; a check on a non-expired row
\* with a negative balance is denied through the exhausted branch.
C10_OptimisticDebit ==
  [][/\ (/\ last'.kind # "none"
         /\ last'.user.rate_end_date >= last'.now
         /\ last'.user[last'.kind] > 0)
        => (last'.okay /\ \E q \in BagToSet(req') : q.user = last'.user)
     /\ \A q \in InFlight, n \in TokenCosts :
          (/\ Finish(q, n, FALSE)
           /\ q.handler = "prompt"
           /\ n > users[q.sender][DebitKind(q)])
          => /\ users'[q.sender][DebitKind(q)] = users[q.sender][DebitKind(q)] - n
             /\ users'[q.sender][DebitKind(q)] < 0
     /\ (/\ last'.kind # "none"
         /\ last'.user.rate_end_date >= last'.now
         /\ last'.user[last'.kind] < 0)
        => (~last'.okay /\ last'.reason = "exhausted")]_vars

\* balance 5, costs 3 and 6, balance -4, and the next prompt was denied
C10_Witness ==
  /\ last.kind = "gpt35_rate"
  /\ last.reason = "exhausted"
  /\ last.user["gpt35_rate"] = -4
  /\ base[1]["gpt35_rate"] = 5
  /\ spent[1]["gpt35_rate"] = 9

\* C11: a check on a non-expired row whose tier grants a non-zero allotment of
\* the requested kind and whose balance is 0 or below is denied through the
\* exhausted branch, the one that names the resource; also at balance exactly 0.
C11_ZeroBalanceExhausted ==
  (/\ last.kind # "none"
   /\ last.user.rate_end_date >= last.now
   /\ Rates[last.user.rate_type][last.kind] > 0
   /\ last.user[last.kind] <= 0)
    => (~last.okay /\ last.reason = "exhausted")

\* C12: every step that obtains a completion from the chat model (prompt, the
\* answer to a transcript, the inline-mode callback) belongs to a handler that
\* passed check_rate_limit of the requesting account for its chat-token
\* column, and lowers that column of the account by the reported token count.
C12_EveryCompletionBilled ==
  [][/\ \A q \in InFlight, n \in TokenCosts :
          (IsChatCompletion(q) /\ Finish(q, n, FALSE))
          => /\ CheckedKind(q, DebitKind(q))
             /\ users'[q.sender][DebitKind(q)] = users[q.sender][DebitKind(q)] - n
     /\ \A u \in UserIds, rid \in ResultIds, n \in TokenCosts :
          InlineGpt(u, rid, n, TRUE)
          => /\ last'.okay /\ last'.chat = u
             /\ is_user_exists(users, u)
             /\ users'[u][ChatKind(users[u])] = users[u][ChatKind(users[u])] - n]_vars

\* the part of C12 that is about the prompt handler alone
C12_PromptBilled ==
  [][\A q \in InFlight, n \in TokenCosts :
       (q.handler = "prompt" /\ Finish(q, n, FALSE))
       => /\ CheckedKind(q, DebitKind(q))
          /\ users'[q.sender][DebitKind(q)] = users[q.sender][DebitKind(q)] - n]_vars

\* C13: the create_user of /start in a chat without a row adds exactly the
\* row of that chat, with the five allotments of tier base, rate_type base,
\* is_free True and rate_end_date = now + 3 days; no step of /start in a chat
\* that has a row changes the users table.
C13_StartCreatesTrial ==
  [][\A c \in Ids :
       (nOps' # nOps \/ starting' # starting) =>
         /\ ((StartCheck(c) \/ StartCreate(c)) /\ is_user_exists(users, c))
              => users' = users
         /\ (StartCreate(c) /\ ~is_user_exists(users, c))
              => /\ DOMAIN users' = DOMAIN users \cup {c}
                 /\ \A o \in DOMAIN users : users'[o] = users[o]
                 /\ Balances(users'[c]) = [k \in Kinds |-> Rates["base"][k]]
                 /\ users'[c].rate_type = "base"
                 /\ users'[c].is_free = TRUE
                 /\ users'[c].rate_end_date = today + 3]_vars

\* a /start that found no row reached create_user after another /start had
\* created the row and a prompt had been debited: the debited row is still there
C13_Witness ==
  /\ last.chat = 1 /\ last.reason = "IntegrityError"
  /\ users[1].is_free /\ users[1].rate_type = "base"
  /\ users[1].gpt35_rate = 2
  /\ spent[1]["gpt35_rate"] = 3

\* C14: every handler that reads the account finds a row, whatever the
\* chat's first event was: get_user never returns None to a billable handler.
C14_HandlersFindAccount == last.reason # "AttributeError"

\* C24: when the AI call of image, tts or prompt raises, the handler sends
\* one message with its failure text and ends without calling the AI again,
\* and the users table is what it was: no balance is written.
C24_AiErrorNoDebit ==
  [][\A q \in InFlight :
       (q.handler \in {"image", "tts", "prompt"} /\ AiRaises(q))
       => /\ users' = users
          /\ last'.reason = FailText(q.handler) /\ last'.chat = q.chat
          /\ CopiesIn(q, req') = CopiesIn(q, req) - 1
          /\ BagCardinality(req') = BagCardinality(req) - 1]_vars

\* a prompt was debited while another prompt of the account was in flight;
\* the AI call of the other one raised and the debited balance is still there
C24_Witness ==
  /\ last.chat = 1 /\ last.reason = "chat_fail"
  /\ req = EmptyBag
  /\ spent[1]["gpt35_rate"] = 3
  /\ users[1].gpt35_rate = 2

\* C25: when a check_rate_limit of prompt, image, tts, transcribe or vision
\* denies, the handler has sent one message, the one of the denying branch
\* with the renew button, no request waits for an AI collaborator because of
\* it, and the users table is what it was.
C25_DenialOneMessage ==
  [][(last'.kind # "none" /\ ~last'.okay) =>
       /\ last'.sent = 1
       /\ last'.button = "change_rate"
       /\ last'.reason \in {"expired", "no_entitlement", "exhausted"}
       /\ req' = req
       /\ users' = users]_vars

\* transcribe of an account of tier gpt-4 whose whisper_rate and gpt4_rate
\* are both used up: the first check denied, the second was not made
C25_Witness ==
  /\ last.kind = "whisper_rate" /\ ~last.okay
  /\ last.user.rate_type = "gpt-4"
  /\ last.user.whisper_rate = 0 /\ last.user.gpt4_rate < 0
  /\ last.sent = 1

\* C27: update_user_field for a chat_id that has a row sets the named column
\* of that row to the given value and leaves the other columns of the row,
\* the other rows and the set of rows as they were; for a chat_id without a
\* row it leaves the table as it was and returns without an error.
C27_SetFieldFrame ==
  [][\A c \in StoreIds, f \in Fields :
       \A v \in FieldValues(f) :
         SetField(c, f, v) =>
           IF c \in DOMAIN users
           THEN /\ DOMAIN users' = DOMAIN users
                /\ users'[c][f] = v
                /\ \A g \in Fields \ {f} : users'[c][g] = users[c][g]
                /\ \A o \in DOMAIN users \ {c} : users'[o] = users[o]
                /\ last'.reason = "commit"
           ELSE /\ users' = users
                /\ last'.reason = "no_row"]_vars

\* gpt35_rate of account 1 was set to 9 while account 2 holds its trial row
C27_Witness ==
  /\ DOMAIN users = {1, 2}
  /\ last.chat = 1 /\ last.reason = "commit"
  /\ users[1] = [TrialRow(0) EXCEPT !.gpt35_rate = 9]
  /\ users[2] = TrialRow(0)

\* C28: when no other update is handled during a transcribe request, the
\* write after the transcription lowers whisper_rate by exactly 1, whatever
\* quantity n was measured, and changes no other balance; the write after
\* the chat reply lowers the chat-token balance by the token count of the
\* reply and leaves whisper_rate at the debited value: both debits are in
\* the stored row.
C28_TranscribeTwoDebits ==
  [][\A q \in InFlight, n \in TokenCosts :
       q.handler = "transcribe" =>
         /\ (q.pc = "ai" /\ \E more \in BOOLEAN : Finish(q, n, more))
              => /\ users'[q.sender].whisper_rate = users[q.sender].whisper_rate - 1
                 /\ \A k \in Kinds \ {"whisper_rate"} :
                      users'[q.sender][k] = users[q.sender][k]
         /\ (q.pc = "reply" /\ Finish(q, n, FALSE))
              => /\ users'[q.sender][ChatKind(q.user)]
                      = users[q.sender][ChatKind(q.user)] - n
                 /\ users'[q.sender].whisper_rate = q.user.whisper_rate - 1
                 /\ \A k \in Kinds \ {ChatKind(q.user)} :
                      users'[q.sender][k] = users[q.sender][k]]_vars

\* a transcription with a chat reply of 6 tokens on the trial row: whisper_rate
\* 1 - 1 and gpt35_rate 5 - 6 are both stored
C28_Witness ==
  /\ 1 \in DOMAIN users /\ users[1].is_free
  /\ req = EmptyBag
  /\ spent[1] = [ZeroKinds EXCEPT !["whisper_rate"] = 1, !["gpt35_rate"] = 6]
  /\ users[1].whisper_rate = 0
  /\ users[1].gpt35_rate = -1

\* a renewal wrote the row of the request's account after the request read it
RenewedSince(q) ==
  /\ q.sender \in DOMAIN users
  /\ \/ users[q.sender].rate_end_date # q.user.rate_end_date
     \/ users[q.sender].rate_type # q.user.rate_type
     \/ users[q.sender].is_free # q.user.is_free
     \/ users[q.sender].last_pay_id # q.user.last_pay_id

\* C29: the debit of a request during which a renewal of its account
\* completed lowers the renewed balance by at most the cost of the request:
\* the balance stored is not computed from the balance read before the
\* renewal.
C29_RenewalSurvivesDebit ==
  [][\A q \in InFlight, n \in TokenCosts, more \in BOOLEAN :
       (RenewedSince(q) /\ Finish(q, n, more))
       => /\ users'[q.sender][DebitKind(q)]
               >= users[q.sender][DebitKind(q)] - DebitCost(q, n)
          /\ users'[q.sender][DebitKind(q)] <= users[q.sender][DebitKind(q)]]_vars

\* the balances and the tier of a row stem from one renewal (or from the
\* creation of the row): grant is what that renewal wrote
RenewalWhole(row, grant) ==
  /\ grant = [k \in Kinds |-> Rates[row.rate_type][k]]
  /\ IF row.is_free
     THEN row.rate_type = "base" /\ row.rate_end_date <= MaxDay + TrialDays
     ELSE row.rate_end_date >= RenewDays

\* C30: in every state the balances written by the last renewal of an
\* account are the five allotments of the tier its rate_type names, and
\* is_free and rate_end_date are the ones that renewal wrote, also after a
\* payment confirmation and a change_rate to different tiers; every row a
\* check_rate_limit reads is such a row.
C30_RenewalAllOrNothing ==
  /\ \A a \in DOMAIN users : RenewalWhole(users[a], base[a])
  /\ last.kind # "none" => RenewalWhole(last.user, base[last.chat])

\* a payment renewed the account to a paid tier, change_rate then set tier
\* base, and a check_rate_limit read the row
C30_Witness ==
  /\ last.kind # "none"
  /\ last.user.rate_type = "base" /\ ~last.user.is_free
  /\ credited[1] # {}
  /\ Balances(last.user) = [k \in Kinds |-> Rates["base"][k]]

\* C31: the debit of a billable request writes no row but the row its
\* check_rate_limit read, the row of the chat; also when the sender's user id
\* is not the chat id.
C31_DebitAuthorizedAccount ==
  [][\A q \in InFlight, n \in TokenCosts, more \in BOOLEAN :
       Finish(q, n, more)
       => \A a \in DOMAIN users : a # q.chat => users'[a] = users[a]]_vars

\* C32: a transcribe request gets a chat reply to the transcript only if
\* its handler passed check_rate_limit for the chat-token column of the
\* account (gpt4_rate for tier gpt-4, gpt35_rate otherwise): the row it read
\* had a positive balance in that column.
C32_VoiceReplyChecked ==
  [][\A q \in InFlight, n \in TokenCosts :
       (q.handler = "transcribe" /\ q.pc = "reply" /\ Finish(q, n, FALSE))
       => /\ CheckedKind(q, ChatKind(q.user))
          /\ q.user[ChatKind(q.user)] > 0]_vars

\* C33: one payment credits at most one account: once payment id P is
\* recorded as credited to account A, a confirmation of P pressed by another
\* user B leaves B's account as it was
C33_PaymentCreditsOneAccount ==
  [][\A b \in StoreIds, pid \in PayIds, o \in OutSums, code \in StateCodes :
       (/\ \E a \in DOMAIN users :
              a # b /\ users[a].last_pay_id = ToStr(pid)
        /\ CheckPayFrom(b, pid, o, code))
       => users' = users]_vars

\* C34: rate_end_date never moves to an earlier date: a new row gets
\* today + 3 days, a renewal stores today + 30 days (it does not add 30 days to
\* the remaining period), and no step lowers the stored date
C34_EndDateNeverEarlier ==
  [][\A c \in DOMAIN users' :
       IF c \in DOMAIN users
       THEN /\ users'[c].rate_end_date >= users[c].rate_end_date
            /\ users'[c] # users[c] => users'[c].rate_end_date = today + RenewDays
       ELSE users'[c].rate_end_date = today + TrialDays]_vars

\* an account that paid, whose period had not run out, is renewed by
\* change_rate on a later day
C34_Witness ==
  \E c \in DOMAIN users :
     /\ users[c].last_pay_id # NullPayId
     /\ users[c].rate_type = "base"
     /\ today > 0
     /\ users[c].rate_end_date = today + RenewDays
     /\ last.reason = "changed"

\* C35: a payment confirmation for which the gateway reports no state, or a
\* state code other than 100, changes no field of any account (so the payment
\* id is not stored as last_pay_id) and sends the caller the not-received
\* message
C35_UnpaidConfirmationNoChange ==
  [][\A u \in StoreIds, pid \in PayIds, o \in OutSums, code \in StateCodes :
       (code # SuccessCode /\ CheckPayFrom(u, pid, o, code))
       => /\ users' = users
          /\ last'.chat = u
          /\ last'.reason = "not_received"
          /\ last'.sent = 1]_vars

\* the not-received message went to a user whose row holds no payment id,
\* for an answer of the gateway without State
C35_Witness ==
  /\ last.reason = "not_received"
  /\ last.button = "check_pay"
  /\ last.chat \in DOMAIN users
  /\ users[last.chat].last_pay_id = NullPayId
  /\ users[last.chat].is_free

\* C36: /change_rate changes an account only when the caller is an admin, the
\* command has exactly two arguments, the tier number is one of 1..4 and the
\* target account exists; in every other case no field of any account changes
C36_ChangeRateGuards ==
  [][\A admin \in BOOLEAN, nargs \in ArgCounts, n \in RateArgs, t \in StoreIds :
       (/\ ~(admin /\ nargs = 2 /\ n \in 1..4 /\ t \in DOMAIN users)
        /\ ChangeRateCmd(admin, nargs, n, t))
       => users' = users]_vars

\* an admin named an account that does not exist while another account
\* exists
C36_Witness ==
  /\ last.reason = "not_found"
  /\ DOMAIN users # {}

\* C38: each cached inline query is answered at most once: a "gpt:<id>"
\* callback requests a completion only if it is the first one for an id that
\* inline_query stored, and it removes the entry; every later callback with
\* that id, and every callback with an id that was never stored, requests no
\* completion and shows the error text
C38_InlineAnsweredOnce ==
  [][\A u \in UserIds, rid \in ResultIds :
       /\ (\E n \in TokenCosts, ok \in BOOLEAN : InlineGpt(u, rid, n, ok))
          => /\ rid \in inline_queries_cache
             /\ rid \notin answered
             /\ rid \notin inline_queries_cache'
             /\ last'.reason = "inline_completion"
       /\ InlineMiss(u, rid)
          => /\ rid \in answered \/ rid \notin inline_queries_cache
             /\ inline_queries_cache' = inline_queries_cache
             /\ answered' = answered
             /\ last'.reason = "inline_error"]_vars

\* every id was stored and answered, and a further callback, which can only
\* carry an id that was answered, got the error text
C38_Witness ==
  /\ last.reason = "inline_error"
  /\ answered = ResultIds

(* ------------------------- the streamed answer -------------------------- *)
\* the step is an iteration of the loop over a partial no longer than the cap
ShortPartialStep == nPartials' = nPartials + 1 /\ content' <= ChunkSize

\* the texts the user sees: the bot's messages that were not deleted, in order
Visible ==
  LET shown == SelectSeq(messages, LAMBDA m : ~m.deleted)
  IN [k \in 1..Len(shown) |-> shown[k].text]

\* C15 (as stated): for partials no longer than the cap of which one is not
\* empty, exactly one reply_text succeeds in the request, none is issued after
\* one succeeded, and every later partial is presented by an edit of that
\* message only.
C15_ExactlyOneSend ==
  [][ShortPartialStep =>
       /\ (sendsOk = 1 => sendsIssued' = sendsIssued)
       /\ (sendsOk = 1 => obs'.branch \in {"edit", "suppress"})
       /\ (phase' = "done" /\ content' > 0 => sendsOk' = 1)]_vars

\* C15 (amended): for partials no longer than the cap at most one reply_text
\* succeeds.  Until one succeeded every partial that is not whitespace only is
\* sent with a new reply_text, which succeeds exactly if the transport accepts
\* it; a whitespace-only partial is skipped.  After one succeeded no
\* reply_text is issued and every partial is edited into that message or
\* suppressed.
C15_OneAcceptedSend ==
  [][ShortPartialStep =>
       /\ sendsOk' <= 1
       /\ (sendsOk = 1 =>
             /\ sendsIssued' = sendsIssued
             /\ obs'.branch \in {"edit", "suppress"}
             /\ sent_message' = sent_message /\ Len(messages') = Len(messages))
       /\ (sendsOk = 0 /\ obs'.branch # "blank" =>
             /\ obs'.branch = "send"
             /\ sendsIssued' = sendsIssued + 1
             /\ (sendsOk' = 1 <=> obs'.send = "ok"))
       /\ (obs'.branch = "blank" => sendsIssued' = sendsIssued /\ messages' = messages)]_vars

\* a whitespace-only partial, a rejected reply_text, an accepted one and an
\* edit with the final text: one message
C15_Witness ==
  /\ phase = "done" /\ content <= ChunkSize
  /\ nPartials = 4
  /\ sendsIssued = 2 /\ sendsOk = 1
  /\ obs.branch = "edit" /\ obs.edit = "ok"
  /\ Len(messages) = 1

\* C16: once the first message is sent, an edit for a partial no longer than
\* the cap is issued only if the partial carries the token count or
\* |len(partial) - len(prev)| > cutoff + 5 * (edits failed so far), where prev
\* is the text of the last edit attempted, empty before the first attempt.
C16_EditOnlyPastCutoff ==
  [][ShortPartialStep =>
       /\ (obs'.branch = "edit" =>
             /\ sendsOk = 1
             /\ \/ obs'.fin
                \/ Abs(content' - prev) > get_stream_cutoff_values(content') + 5 * editsFailed)
       /\ prev' = IF obs'.branch = "edit" THEN content' ELSE prev]_vars

\* an edit that is not the final one was issued after one edit had failed
C16_Witness ==
  /\ obs.branch = "edit" /\ ~obs.fin /\ obs.edit = "ok"
  /\ obs.whole <= ChunkSize
  /\ obs.backoff = 5 /\ editsFailed = 1
  /\ obs.len - obs.prev > 7

\* C17 (as stated): for partials no longer than the cap no edit is issued for
\* a partial whose length differs from the length of the partial right before
\* it by less than the current cutoff, unless it carries the token count.
C17_NoEditBelowConsecutiveCutoff ==
  [][(ShortPartialStep /\ obs'.branch = "edit" /\ ~obs'.fin)
       => ~(content' - content < obs'.cutoff)]_vars

\* C17 (amended): for a partial no longer than the cap that does not carry
\* the token count and comes after the message was sent, an edit is issued
\* exactly if its length differs by more than the current cutoff from the
\* length of the text of the last edit attempted.  The text sent as the new
\* message does not count as an edit: the partial that follows it is edited
\* exactly if its own length exceeds the cutoff, however little it differs
\* from the partial before it.
C17_EditIffPastLastEdit ==
  [][(ShortPartialStep /\ sendsOk = 1 /\ ~obs'.fin) =>
       /\ (obs'.branch = "edit")
            <=> (Abs(content' - prev) > get_stream_cutoff_values(content') + backoff)
       /\ (obs.branch = "send" =>
             /\ prev = 0
             /\ (obs'.branch = "edit")
                  <=> (content' > get_stream_cutoff_values(content')))]_vars

\* the partial after the one that was sent is one character longer and was
\* edited into the message
C17_Witness ==
  /\ obs.branch = "edit" /\ ~obs.fin
  /\ obs.whole <= ChunkSize
  /\ nPartials = 2 /\ sendsOk = 1
  /\ obs.prev = 0
  /\ obs.delta = 1 /\ obs.delta < obs.cutoff

\* C18: when a stream whose text grew past the cap has ended and the
\* transport rejected no call, the texts the user sees are, in order, the
\* chunks split_into_chunks gives for the complete text.
C18_StreamEqualsChunks ==
  (phase = "done" /\ seenText /\ content > ChunkSize /\ rejected = 0)
    => Visible = split_into_chunks(content)

\* C19: when the edit with the final text is answered with RetryAfter, the
\* edit is made again with the same text: after the loop the live message
\* holds the final text.
C19_RateLimitedFinalRetried ==
  (phase = "done" /\ obs.branch = "edit" /\ obs.fin /\ obs.edit = "RetryAfter")
    => messages[sent_message].text = split_into_chunks(content)[Len(split_into_chunks(content))]

LastChunk(len) == split_into_chunks(len)[Len(split_into_chunks(len))]

\* C21: when a stream of which some partial is not empty has ended with the
\* partial that carries the token count and the transport rejected no call,
\* the live message holds the last content with markdown formatting; also when
\* that partial is the first one that is not empty and when it reaches a
\* further chunk.
C21_FinalEmittedFormatted ==
  (phase = "done" /\ seenText /\ rejected = 0)
    => /\ sent_message # 0
       /\ messages[sent_message].text = LastChunk(content)
       /\ messages[sent_message].md

\* C23: a message an edit closed with a full chunk, after which the stream
\* went on with the next chunk, is changed by no later iteration of the
\* loop; also when the reply_text for the next chunk failed.
C23_FinalizedNeverEdited ==
  [][\A k \in finalized : messages'[k] = messages[k]]_vars

\* C26: after a streamed prompt whose stream ended with the token count T,
\* the chat-token balance of the account is the balance before the request
\* minus T, whatever the transport answered to the sends and edits.
C26_StreamDebitsReported ==
  (phase = "billed" /\ seenText)
    => \A a \in DOMAIN users :
         users[a][ChatKind(users[a])] = base[a][ChatKind(users[a])] - FinalTokens

(* --------------------------- Replicate.run ------------------------------ *)
\* what a call that ended, or that sleeps, saw at its last get
RunOutcomeMatchesStatus ==
  /\ run_pc = "returned" <=> polled = "succeeded"
  /\ run_pc = "returned" =>
        result = [kind |-> "return", value |-> output, status |-> "none"]
  /\ run_pc = "raised" <=> polled \notin Pending \cup {"succeeded", "none"}
  /\ run_pc = "raised" => result.kind = "exception" /\ result.status = polled
  /\ run_pc = "sleep" => polled \in Pending
  /\ run_pc \in {"idle", "poll", "sleep"} => result = NoResult

\* C37: Replicate.run polls the prediction until it leaves "starting" and
\* "processing": it returns the prediction's output iff the polled status is
\* "succeeded", raises for any other final status, and it terminates provided
\* the prediction eventually leaves "starting"/"processing"
C37_RunReturnsOrRaisesAndTerminates ==
  /\ []RunOutcomeMatchesStatus
  /\ (<>[](status \notin Pending))
       => [](run_pc \in {"poll", "sleep"} => <>(run_pc \in {"returned", "raised"}))

\* a call returned the output after it had slept on a pending prediction
C37_Witness ==
  /\ run_pc = "returned"
  /\ npolls >= 3
  /\ result.value \in Outputs

(* ----------------------- the answer sent without streaming --------------- *)
\* the step is an iteration of the for loop over chunks
ReplyChunkStep == index' # index \/ raised' # raised

\* C22 (as stated): the loop sends every chunk as one new message, in chunk
\* order, as many messages as chunks, only the first marked as a reply; a
\* chunk whose formatted send fails is sent again without formatting.
C22_EveryChunkOneMessage ==
  [][ReplyChunkStep =>
       /\ \A o1 \in SendOutcomes, o2 \in SendOutcomes :
            (ReplyChunk(o1, o2) /\ o1 # "ok") => replyCalls' = replyCalls + 2
       /\ (raised' \/ index' = Len(split_into_chunks(response)))
            => /\ Len(replies') = Len(split_into_chunks(response))
               /\ \A k \in 1..Len(replies') :
                    /\ replies'[k].text = split_into_chunks(response)[k]
                    /\ replies'[k].reply = (k = 1)]_vars

\* C22 (amended): the messages sent are the first chunks of the text, in
\* chunk order, one message per chunk, only the first marked as a reply.  In
\* prompt a chunk whose formatted send fails is sent once more without
\* formatting before the next chunk; when that fails too the exception ends
\* the loop and the chunks left are not sent.  In transcribe a chunk is sent
\* formatted only and a failed send ends the loop.  There are as many
\* messages as chunks exactly if no exception ended the loop.
C22_ChunksSentInOrder ==
  [][ReplyChunkStep =>
       LET chunks == split_into_chunks(response)
       IN /\ Len(replies') = index'
          /\ \A k \in 1..Len(replies') :
               /\ replies'[k].text = chunks[k]
               /\ replies'[k].reply = (k = 1)
          /\ \A k \in 1..Len(replies) : replies'[k] = replies[k]
          /\ replyCalls' = replyCalls + 1 \/ replyCalls' = replyCalls + 2
          /\ replyCalls' = replyCalls + 2 => replyPath = "prompt"
          /\ ~raised' =>
               /\ index' = index + 1
               /\ replies'[index'].md = (replyCalls' = replyCalls + 1)
          /\ raised' =>
               /\ replies' = replies
               /\ replyCalls' = replyCalls + (IF replyPath = "prompt" THEN 2 ELSE 1)
          /\ (index' = Len(chunks)) <=> (Len(replies') = Len(chunks))]_vars

\* prompt sent three chunks, the second one unformatted after its formatted
\* send had failed
C22_Witness ==
  /\ replyPath = "prompt" /\ ~raised
  /\ Len(split_into_chunks(response)) = 3 /\ index = 3
  /\ replyCalls = 4
  /\ replies[1].md /\ ~replies[2].md /\ replies[3].md
  /\ ~replies[3].reply

====
